---- MODULE Spec2Model ----
(***************************************************************************)
(* Model of pdf-signer: the Streamlit handler (src/app.py) and the         *)
(* directory batch (src/sign_all.py).  Lengths are PDF points, taken as    *)
(* integers.  A document is the byte string of the file together with the  *)
(* page list PdfReader reads from it.  The two library calls               *)
(* pkcs12.load_key_and_certificates and endesive pdf.cms.sign are          *)
(* external: the first is decided by the container and the password it is  *)
(* handed, the second either raises or returns the bytes to append.        *)
(***************************************************************************)
EXTENDS Integers, Sequences, FiniteSets, TLC

VARIABLES mode, pc, docs, p12, password, visible, layout, i, creds,
          events, calls, signed_results, downloads, target, errors, ret

vars == <<mode, pc, docs, p12, password, visible, layout, i, creds,
          events, calls, signed_results, downloads, target, errors, ret>>

-----------------------------------------------------------------------------
(* Bounds of the model *)

\* longest batch of documents
MaxDocs == 2

\* largest page index a direct call passes (negative ones go down to -MaxIndex)
MaxIndex == 5

-----------------------------------------------------------------------------
(* Program constants *)

DefaultBoxW == 160
DefaultBoxH == 84
DefaultMarginRight == 24
DefaultMarginBottom == 24
SigFlags == 3

\* the default value of the box parameter of both builders and of sign_pdf_file
DefaultBox == <<36, 36, 196, 120>>

\* br_box = None
NoBox == <<>>

-----------------------------------------------------------------------------
(* Values *)

\* Python None / bytes for the password argument of the PKCS#12 parser
Null == [some |-> FALSE, bytes |-> <<>>]
Bytes(b) == [some |-> TRUE, bytes |-> b]

\* Python None / str for a passphrase; a str is its sequence of code points
NoStr == [some |-> FALSE, chars |-> <<>>]
Str(s) == [some |-> TRUE, chars |-> s]

PasswordSet == {NoStr, Str(<<>>), Str(<<104, 111>>), Str(<<241>>), Str(<<8364>>)}

\* PKCS#12 containers: absent (nothing uploaded), garbage, protected by no
\* password, by the empty password, by a password
NoFile == [present |-> FALSE, valid |-> FALSE, pwd |-> Null, id |-> 0]
P12Pool ==
    { [present |-> TRUE, valid |-> FALSE, pwd |-> Null, id |-> 1],
      [present |-> TRUE, valid |-> TRUE, pwd |-> Null, id |-> 2],
      [present |-> TRUE, valid |-> TRUE, pwd |-> Bytes(<<>>), id |-> 3],
      [present |-> TRUE, valid |-> TRUE, pwd |-> Bytes(<<104, 111>>), id |-> 4],
      [present |-> TRUE, valid |-> TRUE, pwd |-> Bytes(<<195, 177>>), id |-> 5] }

NoCreds == [key |-> 0, cert |-> 0, ca |-> <<>>]

Page(w, h) == [width |-> w, height |-> h]

\* documents: no page, one Letter page, Letter then A4, three pages of three sizes
DocPool ==
    { [name |-> "empty", bytes |-> <<37>>, pages |-> <<>>],
      [name |-> "letter", bytes |-> <<37, 80>>, pages |-> <<Page(612, 792)>>],
      [name |-> "mixed", bytes |-> <<37, 80, 68>>,
       pages |-> <<Page(612, 792), Page(595, 842)>>],
      [name |-> "three", bytes |-> <<37, 70>>,
       pages |-> <<Page(300, 400), Page(612, 792), Page(842, 595)>>] }

\* what pdf.cms.sign hands back when it does not raise
AppendPool == {<<10, 49>>, <<10, 50, 51>>}

SignOutcomes ==
    {[ok |-> FALSE, bytes |-> <<>>]} \cup {[ok |-> TRUE, bytes |-> s] : s \in AppendPool}

\* sidebar number_input widgets: box_w in 60..600, box_h in 30..400, margins in 0..200
LayoutSet ==
    { [box_w |-> 160, box_h |-> 84, margin_right |-> 24, margin_bottom |-> 24],
      [box_w |-> 600, box_h |-> 30, margin_right |-> 0, margin_bottom |-> 200] }

\* boxes a caller of sign_pdf_bytes / the builders may pass
BoxArgs == {DefaultBox, <<428, 24, 588, 108>>, <<100, 24, 100, 108>>, <<50, 60, 10, 20>>}

IndexArgs == (-MaxIndex)..MaxIndex

WellFormed(box) == Len(box) = 4 /\ box[1] < box[3] /\ box[2] < box[4]

-----------------------------------------------------------------------------
(* str.encode("utf-8") *)

Utf8Char(c) ==
    IF c < 128 THEN <<c>>
    ELSE IF c < 2048 THEN <<192 + (c \div 64), 128 + (c % 64)>>
    ELSE <<224 + (c \div 4096), 128 + ((c \div 64) % 64), 128 + (c % 64)>>

RECURSIVE Utf8(_)
Utf8(s) == IF s = <<>> THEN <<>> ELSE Utf8Char(Head(s)) \o Utf8(Tail(s))

\* Python truthiness of a str-or-None
Truthy(p) == p.some /\ p.chars # <<>>

-----------------------------------------------------------------------------
(* Credential loading *)

\* pkcs12.load_key_and_certificates(data, pwd), with the trailing "or []"
Pkcs12Load(container, pwd) ==
    IF container.valid /\ pwd = container.pwd
    THEN [ok |-> TRUE, err |-> "",
          bundle |-> [key |-> container.id, cert |-> container.id, ca |-> <<>>]]
    ELSE [ok |-> FALSE, err |-> "ValueError", bundle |-> NoCreds]

\* app.py: password.encode("utf-8") if password else None
AppPasswordArg(pw) == IF Truthy(pw) THEN Bytes(Utf8(pw.chars)) ELSE Null

\* sign_all.py: password.encode("utf-8"); None has no encode
CliPasswordArg(pw) == Bytes(Utf8(pw.chars))

\* [ok, err, arg, called, bundle]: arg is what the parser was handed, when called
load_pkcs12_from_bytes(p12_bytes, pw) ==
    LET r == Pkcs12Load(p12_bytes, AppPasswordArg(pw))
    IN  [ok |-> r.ok, err |-> r.err, called |-> TRUE,
         arg |-> AppPasswordArg(pw), bundle |-> r.bundle]

_load_pkcs12(p12_path, pw) ==
    IF ~pw.some
    THEN [ok |-> FALSE, err |-> "AttributeError", called |-> FALSE,
          arg |-> Null, bundle |-> NoCreds]
    ELSE LET r == Pkcs12Load(p12_path, CliPasswordArg(pw))
         IN  [ok |-> r.ok, err |-> r.err, called |-> TRUE,
              arg |-> CliPasswordArg(pw), bundle |-> r.bundle]

-----------------------------------------------------------------------------
(* Page geometry *)

\* the index left to Python's own negative indexing
ResolveIndexPython(page_index, n) == page_index

\* if page_index < 0: page_index = len(reader.pages) - 1
ResolveIndex(page_index, n) == IF page_index < 0 THEN n - 1 ELSE page_index

\* an index past the end lands on the last page instead of raising
PageAtClamped(k, n) ==
    IF n = 0 THEN -1
    ELSE IF k >= n THEN n - 1
    ELSE IF k >= 0 THEN k
    ELSE IF n + k >= 0 THEN n + k
    ELSE 0

\* reader.pages[k]: a Python sequence index; the 0-based page it lands on, -1 = IndexError
PageAt(k, n) ==
    IF k >= 0 /\ k < n THEN k
    ELSE IF k < 0 /\ n + k >= 0 THEN n + k
    ELSE -1

\* [ok, err, page, width, height]; page is the 0-based page whose mediabox is read
get_page_size(doc, page_index) ==
    LET n == Len(doc.pages)
        p == PageAt(ResolveIndex(page_index, n), n)
    IN  IF p < 0
        THEN [ok |-> FALSE, err |-> "IndexError", page |-> -1, width |-> 0, height |-> 0]
        ELSE [ok |-> TRUE, err |-> "", page |-> p,
              width |-> doc.pages[p + 1].width, height |-> doc.pages[p + 1].height]

-----------------------------------------------------------------------------
(* Box in the bottom-right corner *)

\* the box kept on the page
bottom_right_box_clamped(width, height, box_w, box_h, margin_right, margin_bottom) ==
    LET x2 == width - margin_right
        x1 == IF x2 - box_w < 0 THEN 0 ELSE x2 - box_w
        y1 == margin_bottom
        y2 == IF y1 + box_h > height THEN height ELSE y1 + box_h
    IN  <<x1, y1, x2, y2>>

bottom_right_box(width, height, box_w, box_h, margin_right, margin_bottom) ==
    LET x2 == width - margin_right
        x1 == x2 - box_w
        y1 == margin_bottom
        y2 == y1 + box_h
    IN  <<x1, y1, x2, y2>>

compute_bottom_right_box(width, height, box_w, box_h, margin_right, margin_bottom) ==
    LET x2 == width - margin_right
        x1 == x2 - box_w
        y1 == margin_bottom
        y2 == y1 + box_h
    IN  <<x1, y1, x2, y2>>

-----------------------------------------------------------------------------
(* Signature dictionary *)

\* page and box written whatever visible is
signature_dict_always_box(vis, page_index, box) ==
    [sigflags |-> SigFlags, signature |-> "FIRMA DIGITAL: ENZO GAROFALO LANZUISI",
     sigpage |-> page_index, signaturebox |-> box]

signature_dict(vis, page_index, box) ==
    LET dct == [sigflags |-> SigFlags,
                signature |-> "FIRMA DIGITAL: ENZO GAROFALO LANZUISI"]
    IN  IF vis THEN [sigpage |-> page_index, signaturebox |-> box] @@ dct ELSE dct

_signature_dict(vis, page_index, box) ==
    LET dct == [sigflags |-> SigFlags,
                signature |-> "Firma Digital: ENZO GAROFALO LANZUISI"]
    IN  IF vis THEN [sigpage |-> page_index, signaturebox |-> box] @@ dct ELSE dct

-----------------------------------------------------------------------------
(* Signing one document *)

Ev(kind, k, arg) == [kind |-> kind, k |-> k, arg |-> arg]

NoGeom == [ok |-> FALSE, err |-> "", page |-> -1, width |-> 0, height |-> 0]
NoDct == [sigflags |-> 0, signature |-> ""]

\* the two writes in the other order
SignedOutputSwapped(pdf_bytes, signed_append) == signed_append \o pdf_bytes

\* out.write(pdf_bytes); out.write(signed_append)
SignedOutput(pdf_bytes, signed_append) == pdf_bytes \o signed_append

\* fh.write(pdf_bytes); fh.write(signed_bytes)
WrittenFile(pdf_bytes, signed_bytes) == pdf_bytes \o signed_bytes

\* The record of one call: the arguments, whether and where the geometry was
\* read, the dictionary handed to pdf.cms.sign, and the outcome.  ext is what
\* pdf.cms.sign does when it is reached.
sign_pdf_bytes(doc, bundle, vis, page_index, br_box, ext) ==
    LET needGeom == vis /\ br_box = NoBox
        g == IF needGeom THEN get_page_size(doc, page_index) ELSE NoGeom
        box == IF needGeom
               THEN bottom_right_box(g.width, g.height, DefaultBoxW, DefaultBoxH,
                                     DefaultMarginRight, DefaultMarginBottom)
               ELSE br_box
        dct == IF vis THEN signature_dict(TRUE, page_index, box)
                      ELSE signature_dict(FALSE, page_index, DefaultBox)
        base == [fn |-> "sign_pdf_bytes", doc |-> doc, visible |-> vis,
                 page_index |-> page_index, box_arg |-> br_box, creds |-> bundle,
                 geom_read |-> needGeom, geom |-> g, loads |-> 0, ev |-> <<>>]
    IN  IF needGeom /\ ~g.ok
        THEN base @@ [status |-> g.err, dct_built |-> FALSE, dct |-> NoDct,
                      sign_attempted |-> FALSE, out |-> <<>>]
        ELSE IF ~ext.ok
        THEN base @@ [status |-> "SignError", dct_built |-> TRUE, dct |-> dct,
                      sign_attempted |-> TRUE, out |-> <<>>]
        ELSE base @@ [status |-> "ok", dct_built |-> TRUE, dct |-> dct,
                      sign_attempted |-> TRUE,
                      out |-> SignedOutput(doc.bytes, ext.bytes)]

\* the events of one sign_pdf_file call on document k, in program order, up to
\* the statement that raised
FileEvents(k, ld, geomOk, signOk) ==
    <<Ev("read", k, Null)>>
    \o (IF ld.called THEN <<Ev("load", k, ld.arg)>> ELSE <<>>)
    \o (IF ld.ok /\ geomOk THEN <<Ev("sign", k, Null)>> ELSE <<>>)
    \o (IF ld.ok /\ geomOk /\ signOk THEN <<Ev("write", k, Null)>> ELSE <<>>)

sign_pdf_file(k, doc, p12_path, p12_password, vis, page_index, box_in, ext) ==
    LET ld == _load_pkcs12(p12_path, p12_password)
        g == IF vis /\ ld.ok THEN get_page_size(doc, page_index) ELSE NoGeom
        geomOk == ~vis \/ g.ok
        box == IF vis
               THEN compute_bottom_right_box(g.width, g.height, 160, 84, 24, 24)
               ELSE box_in
        dct == _signature_dict(vis, page_index, box)
        base == [fn |-> "sign_pdf_file", doc |-> doc, visible |-> vis,
                 page_index |-> page_index, box_arg |-> box_in, creds |-> ld.bundle,
                 geom_read |-> vis /\ ld.ok, geom |-> g,
                 loads |-> IF ld.called THEN 1 ELSE 0,
                 ev |-> FileEvents(k, ld, geomOk, ext.ok)]
    IN  IF ~ld.ok
        THEN base @@ [status |-> ld.err, dct_built |-> FALSE, dct |-> NoDct,
                      sign_attempted |-> FALSE, out |-> <<>>]
        ELSE IF ~geomOk
        THEN base @@ [status |-> g.err, dct_built |-> FALSE, dct |-> NoDct,
                      sign_attempted |-> FALSE, out |-> <<>>]
        ELSE IF ~ext.ok
        THEN base @@ [status |-> "SignError", dct_built |-> TRUE, dct |-> dct,
                      sign_attempted |-> TRUE, out |-> <<>>]
        ELSE base @@ [status |-> "ok", dct_built |-> TRUE, dct |-> dct,
                      sign_attempted |-> TRUE,
                      out |-> WrittenFile(doc.bytes, ext.bytes)]

-----------------------------------------------------------------------------
(* State *)

Batches == UNION {[1..n -> DocPool] : n \in 0..MaxDocs}

NoRet == [fn |-> "none"]

\* credentials a direct caller of sign_pdf_bytes already holds
CallerCreds == [key |-> 2, cert |-> 2, ca |-> <<>>]

Quiet ==
    /\ i = 0 /\ creds = NoCreds /\ events = <<>> /\ calls = <<>>
    /\ signed_results = <<>> /\ downloads = [shown |-> FALSE, files |-> <<>>, zip |-> FALSE]
    /\ target = <<>> /\ errors = <<>> /\ ret = NoRet

\* "app": the "Firmar PDFs" button was pressed with the widgets in some state;
\* "cli": sign_all_pdfs was called; "api": one function is called directly.
Init ==
    /\ mode \in {"app", "cli", "api"}
    /\ pc = "start"
    /\ Quiet
    /\ \/ /\ mode = "app"
          /\ docs \in Batches
          /\ p12 \in P12Pool \cup {NoFile}
          /\ password \in PasswordSet \ {NoStr}
          /\ visible \in BOOLEAN
          /\ layout \in LayoutSet
       \/ /\ mode = "cli"
          /\ docs \in Batches
          /\ p12 \in P12Pool
          /\ password \in PasswordSet \ {NoStr}
          /\ visible \in BOOLEAN
          /\ layout = [box_w |-> 160, box_h |-> 84, margin_right |-> 24, margin_bottom |-> 24]
       \/ /\ mode = "api"
          /\ docs = <<>>
          /\ p12 = NoFile
          /\ password = NoStr
          /\ visible = FALSE
          /\ layout = [box_w |-> 160, box_h |-> 84, margin_right |-> 24, margin_bottom |-> 24]

inputs == <<mode, docs, p12, password, visible, layout>>

-----------------------------------------------------------------------------
(* src/app.py: the handler of the "Firmar PDFs" button *)

\* out_name: the name with ".pdf" stripped, then "_firmado.pdf"
OutName(name) == <<name, "_firmado.pdf">>

\* if not p12_file or p12_password is None / elif not pdf_files / else
AppValidate ==
    /\ mode = "app" /\ pc = "start"
    /\ IF ~p12.present \/ ~password.some
       THEN /\ errors' = Append(errors, "Sube el certificado .p12/.pfx y escribe la contrasena.")
            /\ pc' = "done"
       ELSE IF docs = <<>>
       THEN /\ errors' = Append(errors, "Sube al menos un PDF.")
            /\ pc' = "done"
       ELSE /\ errors' = errors
            /\ pc' = "load"
    /\ UNCHANGED <<inputs, i, creds, events, calls, signed_results, downloads, target, ret>>

\* key, cert, ca_list = load_pkcs12_from_bytes(...); signed_results = []
\* a raise lands in the except: st.error, st.stop
AppLoad ==
    /\ mode = "app" /\ pc = "load"
    /\ LET ld == load_pkcs12_from_bytes(p12, password)
       IN  /\ events' = Append(events, Ev("load", 0, ld.arg))
           /\ IF ld.ok
              THEN /\ creds' = ld.bundle
                   /\ pc' = "loop"
                   /\ errors' = errors
              ELSE /\ creds' = creds
                   /\ pc' = "done"
                   /\ errors' = Append(errors, "Error firmando PDFs")
    /\ signed_results' = <<>>
    /\ UNCHANGED <<inputs, i, calls, downloads, target, ret>>

\* the geometry of the first document kept for the whole batch
AppGeometryCached(batch, k) == get_page_size(batch[1], -1)

\* w, h = get_page_size(pdf_bytes, -1) for document k of the batch
AppGeometry(batch, k) == get_page_size(batch[k], -1)

AppBox(batch, k, lay) ==
    LET g == AppGeometry(batch, k)
    IN  bottom_right_box(g.width, g.height, lay.box_w, lay.box_h,
                         lay.margin_right, lay.margin_bottom)

\* the container parsed again for every document
AppIterEventsReload(k, geomOk) ==
    <<Ev("load", k, Null), Ev("read", k, Null)>>
    \o (IF geomOk THEN <<Ev("sign", k, Null)>> ELSE <<>>)

\* the events of one iteration of the handler's loop, up to the statement that raised
AppIterEvents(k, geomOk) ==
    <<Ev("read", k, Null)>> \o (IF geomOk THEN <<Ev("sign", k, Null)>> ELSE <<>>)

\* one iteration of "for uploaded in pdf_files"
AppIter ==
    /\ mode = "app" /\ pc = "loop" /\ i < Len(docs)
    /\ \E ext \in SignOutcomes :
         LET k == i + 1
             g == IF visible THEN AppGeometry(docs, k) ELSE NoGeom
             geomOk == ~visible \/ g.ok
             br == IF visible THEN AppBox(docs, k, layout) ELSE NoBox
             c == sign_pdf_bytes(docs[k], creds, visible, -1, br, ext)
         IN  /\ events' = events \o AppIterEvents(k, geomOk)
             /\ IF ~geomOk
                THEN /\ calls' = calls
                     /\ signed_results' = signed_results
                     /\ i' = i
                     /\ errors' = Append(errors, "Error firmando PDFs")
                     /\ pc' = "done"
                ELSE IF c.status # "ok"
                THEN /\ calls' = Append(calls, [pre_geom |-> g] @@ c)
                     /\ signed_results' = signed_results
                     /\ i' = i
                     /\ errors' = Append(errors, "Error firmando PDFs")
                     /\ pc' = "done"
                ELSE /\ calls' = Append(calls, [pre_geom |-> g] @@ c)
                     /\ signed_results' =
                            Append(signed_results,
                                   [k |-> k, name |-> OutName(docs[k].name), data |-> c.out])
                     /\ i' = k
                     /\ errors' = errors
                     /\ pc' = pc
    /\ UNCHANGED <<inputs, creds, downloads, target, ret>>

\* st.success, one download button per result, the ZIP button for more than one
AppFinish ==
    /\ mode = "app" /\ pc = "loop" /\ i = Len(docs)
    /\ downloads' = [shown |-> TRUE, files |-> signed_results,
                     zip |-> Len(signed_results) > 1]
    /\ pc' = "done"
    /\ UNCHANGED <<inputs, i, creds, events, calls, signed_results, target, errors, ret>>

-----------------------------------------------------------------------------
(* src/sign_all.py: sign_all_pdfs *)

\* os.makedirs(target_dir, exist_ok=True)
CliStart ==
    /\ mode = "cli" /\ pc = "start"
    /\ pc' = "loop"
    /\ UNCHANGED <<inputs, i, creds, events, calls, signed_results, downloads, target,
                   errors, ret>>

\* one iteration of "for pdf_path in glob.glob(...)": sign_pdf_file, then print;
\* an exception leaves sign_all_pdfs
CliIter ==
    /\ mode = "cli" /\ pc = "loop" /\ i < Len(docs)
    /\ \E ext \in SignOutcomes :
         LET k == i + 1
             c == sign_pdf_file(k, docs[k], p12, password, visible, -1, DefaultBox, ext)
         IN  /\ events' = events \o c.ev
             /\ calls' = Append(calls, c)
             /\ IF c.status = "ok"
                THEN /\ target' = Append(target, [k |-> k, name |-> docs[k].name, data |-> c.out])
                     /\ i' = k
                     /\ pc' = pc
                     /\ errors' = errors
                ELSE /\ target' = target
                     /\ i' = i
                     /\ pc' = "crashed"
                     /\ errors' = Append(errors, c.status)
    /\ UNCHANGED <<inputs, creds, signed_results, downloads, ret>>

CliDone ==
    /\ mode = "cli" /\ pc = "loop" /\ i = Len(docs)
    /\ pc' = "done"
    /\ UNCHANGED <<inputs, i, creds, events, calls, signed_results, downloads, target,
                   errors, ret>>

-----------------------------------------------------------------------------
(* Direct calls of the functions of both files *)

Returned ==
    /\ pc' = "done"
    /\ UNCHANGED <<inputs, i, creds, signed_results, downloads, target, errors>>

CallSignPdfBytes ==
    /\ mode = "api" /\ pc = "start"
    /\ \E doc \in DocPool, vis \in BOOLEAN, idx \in IndexArgs,
          box \in BoxArgs \cup {NoBox}, ext \in SignOutcomes :
         LET c == sign_pdf_bytes(doc, CallerCreds, vis, idx, box, ext)
         IN  /\ calls' = Append(calls, c)
             /\ events' = events \o
                    (IF c.sign_attempted THEN <<Ev("sign", 1, Null)>> ELSE <<>>)
    /\ ret' = ret
    /\ Returned

CallSignPdfFile ==
    /\ mode = "api" /\ pc = "start"
    /\ \E doc \in DocPool, c12 \in P12Pool, pw \in PasswordSet, vis \in BOOLEAN,
          idx \in IndexArgs, box \in {DefaultBox, <<50, 60, 10, 20>>}, ext \in SignOutcomes :
         LET c == sign_pdf_file(1, doc, c12, pw, vis, idx, box, ext)
         IN  /\ calls' = Append(calls, c)
             /\ events' = events \o c.ev
    /\ ret' = ret
    /\ Returned

CallSignatureDict ==
    /\ mode = "api" /\ pc = "start"
    /\ \E vis \in BOOLEAN, idx \in IndexArgs, box \in BoxArgs :
         ret' = [fn |-> "signature_dict", visible |-> vis, page_index |-> idx,
                 box |-> box, status |-> "ok", dct |-> signature_dict(vis, idx, box)]
    /\ UNCHANGED <<calls, events>>
    /\ Returned

CallCliSignatureDict ==
    /\ mode = "api" /\ pc = "start"
    /\ \E vis \in BOOLEAN, idx \in IndexArgs, box \in BoxArgs :
         ret' = [fn |-> "_signature_dict", visible |-> vis, page_index |-> idx,
                 box |-> box, status |-> "ok", dct |-> _signature_dict(vis, idx, box)]
    /\ UNCHANGED <<calls, events>>
    /\ Returned

WidthArgs == {0, 100, 612}
HeightArgs == {0, 792}
BoxWArgs == {-10, 0, 160, 700}
BoxHArgs == {-5, 0, 84}
MarginArgs == {-24, 0, 24}

CallBottomRightBox ==
    /\ mode = "api" /\ pc = "start"
    /\ \E w \in WidthArgs, h \in HeightArgs, bw \in BoxWArgs, bh \in BoxHArgs,
          mr \in MarginArgs, mb \in MarginArgs :
         ret' = [fn |-> "bottom_right_box", width |-> w, height |-> h, box_w |-> bw,
                 box_h |-> bh, margin_right |-> mr, margin_bottom |-> mb,
                 box |-> bottom_right_box(w, h, bw, bh, mr, mb)]
    /\ UNCHANGED <<calls, events>>
    /\ Returned

CallComputeBottomRightBox ==
    /\ mode = "api" /\ pc = "start"
    /\ \E w \in WidthArgs, h \in HeightArgs, bw \in BoxWArgs, bh \in BoxHArgs,
          mr \in MarginArgs, mb \in MarginArgs :
         ret' = [fn |-> "compute_bottom_right_box", width |-> w, height |-> h,
                 box_w |-> bw, box_h |-> bh, margin_right |-> mr, margin_bottom |-> mb,
                 box |-> compute_bottom_right_box(w, h, bw, bh, mr, mb)]
    /\ UNCHANGED <<calls, events>>
    /\ Returned

CallGetPageSize ==
    /\ mode = "api" /\ pc = "start"
    /\ \E doc \in DocPool, idx \in IndexArgs :
         ret' = [fn |-> "get_page_size", doc |-> doc, page_index |-> idx,
                 geom |-> get_page_size(doc, idx)]
    /\ UNCHANGED <<calls, events>>
    /\ Returned

CallLoadPkcs12FromBytes ==
    /\ mode = "api" /\ pc = "start"
    /\ \E c12 \in P12Pool, pw \in PasswordSet :
         LET ld == load_pkcs12_from_bytes(c12, pw)
         IN  /\ ret' = [fn |-> "load_pkcs12_from_bytes", p12 |-> c12, password |-> pw,
                        res |-> ld]
             /\ events' = Append(events, Ev("load", 0, ld.arg))
    /\ calls' = calls
    /\ Returned

CallLoadPkcs12 ==
    /\ mode = "api" /\ pc = "start"
    /\ \E c12 \in P12Pool, pw \in PasswordSet :
         LET ld == _load_pkcs12(c12, pw)
         IN  /\ ret' = [fn |-> "_load_pkcs12", p12 |-> c12, password |-> pw, res |-> ld]
             /\ events' = events \o (IF ld.called THEN <<Ev("load", 0, ld.arg)>> ELSE <<>>)
    /\ calls' = calls
    /\ Returned

-----------------------------------------------------------------------------

Next ==
    \/ AppValidate
    \/ AppLoad
    \/ AppIter
    \/ AppFinish
    \/ CliStart
    \/ CliIter
    \/ CliDone
    \/ CallSignPdfBytes
    \/ CallSignPdfFile
    \/ CallSignatureDict
    \/ CallCliSignatureDict
    \/ CallBottomRightBox
    \/ CallComputeBottomRightBox
    \/ CallGetPageSize
    \/ CallLoadPkcs12FromBytes
    \/ CallLoadPkcs12

Spec == Init /\ [][Next]_vars

-----------------------------------------------------------------------------
(* Properties *)

CallSet == {calls[j] : j \in 1..Len(calls)}
EventSet == {events[j] : j \in 1..Len(events)}
Batch == mode \in {"app", "cli"}
Terminal == pc \in {"done", "crashed"}

IsPrefix(a, b) == Len(a) <= Len(b) /\ SubSeq(b, 1, Len(a)) = a

\* every reading of a page geometry the state records: document, index asked, result
GeomReads ==
    {[doc |-> c.doc, page_index |-> c.page_index, geom |-> c.geom] :
        c \in {d \in CallSet : d.geom_read}}
    \cup (IF mode = "app" /\ visible
          THEN {[doc |-> c.doc, page_index |-> -1, geom |-> c.pre_geom] : c \in CallSet}
          ELSE {})
    \cup (IF ret.fn = "get_page_size"
          THEN {[doc |-> ret.doc, page_index |-> ret.page_index, geom |-> ret.geom]}
          ELSE {})

\* C1: whenever signing succeeds (sign_pdf_bytes or sign_pdf_file, visible or
\* not), the output is the input bytes followed by the bytes pdf.cms.sign
\* returned: its first len(pdf) bytes are the input, and what the batch keeps
\* (signed_results, the files of the target directory) starts with the bytes of
\* the document it was made from.
C1_OutputStartsWithInput ==
    /\ \A c \in CallSet :
         c.status = "ok" =>
            /\ IsPrefix(c.doc.bytes, c.out)
            /\ Len(c.out) > Len(c.doc.bytes)
            /\ SubSeq(c.out, Len(c.doc.bytes) + 1, Len(c.out)) \in AppendPool
    /\ \A j \in 1..Len(signed_results) :
         IsPrefix(docs[signed_results[j].k].bytes, signed_results[j].data)
    /\ \A j \in 1..Len(target) :
         IsPrefix(docs[target[j].k].bytes, target[j].data)

C1_Witness ==
    /\ mode = "cli" /\ visible /\ Len(target) = 2
    /\ target[1].data # target[2].data

ClaimedResolve(idx, n) == IF idx < 0 THEN n - 1 + (idx + 1) ELSE idx
ClaimedOutOfRange(idx, n) == ClaimedResolve(idx, n) < 0 \/ ClaimedResolve(idx, n) >= n

PastEnd(idx, n) == idx >= n \/ n = 0

C4_BoxFormula ==
    ret.fn \in {"bottom_right_box", "compute_bottom_right_box"} =>
        /\ ret.box[3] = ret.width - ret.margin_right
        /\ ret.box[1] = ret.box[3] - ret.box_w
        /\ ret.box[2] = ret.margin_bottom
        /\ ret.box[4] = ret.box[2] + ret.box_h
        /\ ret.box[3] - ret.box[1] = ret.box_w
        /\ ret.box[4] - ret.box[2] = ret.box_h
        /\ (/\ ret.width = 612 /\ ret.box_w = 160 /\ ret.box_h = 84
            /\ ret.margin_right = 24 /\ ret.margin_bottom = 24)
           => ret.box = <<428, 24, 588, 108>>

\* a box wider than the page and taller than it: left of and above the page
C4_Witness ==
    /\ ret.fn = "bottom_right_box"
    /\ ret.width = 612 /\ ret.height = 0 /\ ret.box_w = 700 /\ ret.box_h = 84
    /\ ret.box[1] < 0 /\ ret.box[4] > ret.height

DctRecords ==
    {[visible |-> c.visible, page_index |-> c.page_index, dct |-> c.dct] :
        c \in {d \in CallSet : d.dct_built}}
    \cup (IF ret.fn \in {"signature_dict", "_signature_dict"}
          THEN {[visible |-> ret.visible, page_index |-> ret.page_index, dct |-> ret.dct]}
          ELSE {})

\* C5: a dictionary built by either builder has the sigpage entry and the
\* signaturebox entry exactly when visible is true, then equal to the
\* arguments; sigflags is 3 in both cases.
C5_BoxIffVisible ==
    /\ \A r \in DctRecords :
         /\ ("sigpage" \in DOMAIN r.dct) <=> r.visible
         /\ ("signaturebox" \in DOMAIN r.dct) <=> r.visible
         /\ ("sigpage" \in DOMAIN r.dct) => r.dct.sigpage = r.page_index
         /\ r.dct.sigflags = 3
    /\ (ret.fn \in {"signature_dict", "_signature_dict"} /\ ret.visible) =>
         ret.dct.signaturebox = ret.box

C5_Witness ==
    /\ ret.fn = "signature_dict" /\ ~ret.visible
    /\ ret.page_index = 2 /\ ret.box = <<428, 24, 588, 108>>
    /\ DOMAIN ret.dct = {"sigflags", "signature"}

\* C6 as stated: a visible request whose box is not well-formed is refused:
\* the builder returns no dictionary and pdf.cms.sign is not attempted with
\* such a box.
C6_Original ==
    /\ (/\ ret.fn \in {"signature_dict", "_signature_dict"}
        /\ ret.visible /\ ~WellFormed(ret.box))
       => ret.status = "InvalidSignatureRequest"
    /\ \A c \in CallSet :
         (c.visible /\ c.box_arg # NoBox /\ c.fn = "sign_pdf_bytes"
          /\ ~WellFormed(c.box_arg))
         => (~c.dct_built /\ ~c.sign_attempted /\ c.status = "InvalidSignatureRequest")

Attempted(k) == \E e \in EventSet : e.kind = "read" /\ e.k = k
Kept == IF mode = "app" THEN downloads.files ELSE target
CredentialsFine ==
    IF mode = "app" THEN creds # NoCreds ELSE _load_pkcs12(p12, password).ok

\* C7 as stated: once the credentials are loaded, a batch that has ended
\* attempted every document, whatever failed on the way, and kept the output
\* of every document that was signed.
C7_Original ==
    (Batch /\ Terminal /\ CredentialsFine) =>
        /\ \A k \in 1..Len(docs) : Attempted(k)
        /\ \A j \in 1..Len(calls) :
             calls[j].status = "ok" =>
                \E f \in 1..Len(Kept) : Kept[f].k = j /\ Kept[f].data = calls[j].out

LoadPositions == {j \in 1..Len(events) : events[j].kind = "load"}
DocPositions == {j \in 1..Len(events) : events[j].kind # "load"}

EventsOf(k) == SelectSeq(events, LAMBDA e : e.k = k)
Kinds(es) == [j \in 1..Len(es) |-> es[j].kind]

Utf8Table(chars) ==
    CASE chars = <<104, 111>> -> <<104, 111>>
      [] chars = <<241>> -> <<195, 177>>
      [] chars = <<8364>> -> <<226, 130, 172>>
      [] OTHER -> <<>>

ExpectedArg(pw) ==
    IF ~pw.some \/ pw.chars = <<>> THEN Null ELSE Bytes(Utf8Table(pw.chars))

\* C9 as stated: every password handed to the PKCS#12 parser is null when the
\* passphrase is empty or absent and its UTF-8 bytes otherwise.
C9_Original ==
    /\ Batch => \A e \in EventSet : e.kind = "load" => e.arg = ExpectedArg(password)
    /\ (ret.fn \in {"load_pkcs12_from_bytes", "_load_pkcs12"} /\ ret.res.called) =>
         ret.res.arg = ExpectedArg(ret.password)

OwnBox(doc, lay) ==
    LET pg == doc.pages[Len(doc.pages)]
    IN  <<pg.width - lay.margin_right - lay.box_w, lay.margin_bottom,
          pg.width - lay.margin_right, lay.margin_bottom + lay.box_h>>

====
